---- MODULE Spec2Model ----
(***************************************************************************)
(* The sync reconciler of meadstats-api (src/app/app.py, update_socketio   *)
(* and the functions it calls) over the record store of src/app/models.py. *)
(*                                                                         *)
(* The store is the five tables users, breweries, beers, checkins and      *)
(* friendships, each a function from primary key to row.  A run of         *)
(* update_socketio is a process in a slot of Slots; one action is one      *)
(* database round trip, one request to the data source or one emit, so     *)
(* that overlapping runs interleave at exactly those points.               *)
(*                                                                         *)
(* The data source (Untappd) is a black box.  What it is taken to          *)
(* guarantee: a uid has one user_name, a bid has one brewery, and a        *)
(* first_checkin_id belongs to one (user, beer) pair.  Everything else it  *)
(* reports (profile fields, totals, attributes, page lengths, failures)    *)
(* is an input drawn from a small set.                                     *)
(***************************************************************************)
EXTENDS Integers, Sequences, FiniteSets, TLC

\* ---------------------------------------------------------------- bounds
\* Runs begun in one behaviour.
MaxRuns == 2
\* Checkin rows a read endpoint is given.
MaxLen == 3

\* ------------------------------------------------------ program constants
BeerStep == 50
BeerLimit == 50
FriendStep == 25
FriendLimit == 50

\* ------------------------------------------------------------ the domains
Slots == {1, 2}
UserIds == {1, 2}
BeerIds == {1, 2}
\* The (total_beers, total_friends) a profile reports: no page, one page or
\* two pages of each.
Totals == {<<0, 0>>, <<BeerStep + 1, FriendStep>>, <<BeerStep, FriendStep + 1>>}
None == 0

\* ------------------------------------------------------- the data source
\* A user_name is a base with its casing; func.lower drops the casing.
UserName(u) == [base |-> u, capital |-> TRUE]
lower(name) == [name EXCEPT !.capital = FALSE]
Spellings(u) == {UserName(u), lower(UserName(u))}
\* Strings are sequences: the empty string is the empty sequence.
EmptyString == <<>>
Token(u) == <<"token", u>>
BreweryOf(b) == (b + 1) \div 2
CheckinOf(u, b) == (u - 1) * Cardinality(BeerIds) + b
FriendshipHash(u, f, e) == <<IF u < f THEN u ELSE f, IF u < f THEN f ELSE u, e>>

\* response["user"] of user/info: every profile field carries the epoch e.
raw_user(u, e, tb, tf) ==
    [uid |-> u, user_name |-> UserName(u),
     first_name |-> e, last_name |-> <<"full", e>>,
     user_avatar |-> e, user_avatar_hd |-> <<"hd", e>>,
     stats |-> [total_badges |-> e, total_friends |-> tf,
                total_checkins |-> tb, total_beers |-> tb]]

\* One item of response["beers"]["items"] for user u.
raw_beer(u, b, e) ==
    [first_checkin_id |-> CheckinOf(u, b), count |-> e, rating_score |-> e,
     first_had |-> [naive |-> e, tz |-> "-0400"],
     beer |-> [bid |-> b, attrs |-> e],
     brewery |-> [brewery_id |-> BreweryOf(b), attrs |-> e]]

\* One item of response["items"] of user/friends for user u.
raw_friend(u, f, e) ==
    [friendship_hash |-> FriendshipHash(u, f, e),
     user |-> [uid |-> f, user_name |-> UserName(f), first_name |-> e,
               last_name |-> <<"full", e>>, user_avatar |-> e]]

VARIABLES users, breweries, beers, checkins, friendships, run, trace, nruns,
          rows, resp

store == <<users, breweries, beers, checkins, friendships>>
\* A read endpoint in hand: the Checkin rows its query returned and its
\* response.
agg == <<rows, resp>>
vars == <<users, breweries, beers, checkins, friendships, run, trace, nruns, agg>>

\* ------------------------------------------------------------- the store
\* db.session.add + commit on a table with a primary key: a row whose key
\* is stored is refused (IntegrityError) and the table stays as it is.
KeyStored(table, id) == id \in DOMAIN table
InsertRow(table, id, row) ==
    IF KeyStored(table, id) THEN table ELSE (id :> row) @@ table

\* What handle_beer does to a table when its query found the row: nothing
\* (it writes only under "is None"); the row the record would make is unused.
FoundRowRefreshed(table, id, row) == [table EXCEPT ![id] = row]
FoundRow(table, id, row) == table

\* User(...) as add_user builds it.
add_user(raw, access_token) ==
    [user_name |-> raw.user_name, first_name |-> raw.first_name,
     last_name |-> raw.last_name, avatar |-> raw.user_avatar,
     avatar_hd |-> raw.user_avatar_hd,
     total_badges |-> raw.stats.total_badges,
     total_friends |-> raw.stats.total_friends,
     total_checkins |-> raw.stats.total_checkins,
     total_beers |-> raw.stats.total_beers,
     access_token |-> access_token, api_request_count |-> 0,
     last_update |-> None]

\* The assignments of update_user.
update_user(user, raw) ==
    [user EXCEPT !.first_name = raw.first_name,
                 !.last_name = raw.last_name,
                 !.avatar = raw.user_avatar,
                 !.avatar_hd = raw.user_avatar_hd,
                 !.total_badges = raw.stats.total_badges,
                 !.total_friends = raw.stats.total_friends,
                 !.total_checkins = raw.stats.total_checkins,
                 !.total_beers = raw.stats.total_beers]

\* User(...) as handle_friend builds it: last_name[0], avatar_hd = avatar,
\* zeroed totals, no credential.
friend_user(rf) ==
    [user_name |-> rf.user.user_name, first_name |-> rf.user.first_name,
     last_name |-> <<"initial", rf.user.last_name[2]>>,
     avatar |-> rf.user.user_avatar, avatar_hd |-> rf.user.user_avatar,
     total_badges |-> 0, total_friends |-> 0, total_checkins |-> 0,
     total_beers |-> 0, access_token |-> EmptyString, api_request_count |-> 0,
     last_update |-> None]

add_brewery(raw_brewery) == [attrs |-> raw_brewery.attrs]
add_beer(raw, brewery) == [attrs |-> raw.attrs, brewery_id |-> brewery]
\* strptime(...).replace(tzinfo=None): the offset is dropped.
ParseFirstHad(first_had) == first_had.naive
new_checkin(rb, beer, user) ==
    [beer_id |-> beer, user_id |-> user, count |-> rb.count,
     rating |-> rb.rating_score, first_had |-> ParseFirstHad(rb.first_had)]

get_user_exact(username) ==
    LET hits == {u \in DOMAIN users : users[u].user_name = username}
    IN IF hits = {} THEN 0 ELSE CHOOSE u \in hits : TRUE
\* get_user_from_db: the first row whose lowered user_name matches.
get_user_from_db(username) ==
    LET hits == {u \in DOMAIN users : lower(users[u].user_name) = lower(username)}
    IN IF hits = {} THEN None ELSE CHOOSE u \in hits : TRUE

FindFriendshipAsGiven(table, user, friend) ==
    {h \in DOMAIN table : table[h].user1_id = user /\ table[h].user2_id = friend}
\* The Friendship query of handle_friend: either ordering of the pair.
FindFriendship(table, user, friend) ==
    {h \in DOMAIN table :
        \/ table[h].user1_id = user /\ table[h].user2_id = friend
        \/ table[h].user2_id = user /\ table[h].user1_id = friend}

\* No response yet.
NoResp == [endpoint |-> "none"]

\* ------------------------------------------------------------- the runs
\* The locals of update_socketio and of the handle_* call in progress; a local
\* is None before it is assigned and after its last use.  Of the page in
\* hand, todo is the number of items the loop has not reached and seen the
\* ids of those it has (a page lists no beer and no friend twice).
\* page_writes counts the rows the run has inserted since its last
\* user_beers request.
Idle ==
    [pc |-> "idle", id |-> 0, target |-> None, epoch |-> 0,
     raw_user |-> None, user |-> None,
     beer_count |-> 0, friend_count |-> 0, offset |-> 0, todo |-> 0,
     raw |-> None, brewery |-> None, beer |-> None, friend |-> None,
     seen |-> {}, exc |-> "", page_writes |-> 0]

Ended(r) == run[r].pc \in {"idle", "done", "crashed"}
Active(r) == ~Ended(r)

Event(ev, action, offset, n) ==
    [ev |-> ev, action |-> action, offset |-> offset, n |-> n]
Emit(r, e) == trace' = [trace EXCEPT ![r] = Append(@, e)]

Init ==
    /\ users = <<>>
    /\ breweries = <<>>
    /\ beers = <<>>
    /\ checkins = <<>>
    /\ friendships = <<>>
    /\ run = [r \in Slots |-> Idle]
    /\ trace = [r \in Slots |-> <<>>]
    /\ nruns = 0
    /\ rows = <<>>
    /\ resp = NoResp

\* authenticate_user: the data source names the user of the credential, u,
\* and reports the profile of a new account (its totals are overwritten by
\* update_user before any run reads them).
Authenticate(u, e) ==
    /\ \A r \in DOMAIN run : run[r].pc \in {"idle", "done", "crashed"}
    /\ IF ~KeyStored(users, u)
       THEN users' = InsertRow(users, u, add_user(raw_user(u, e, 0, 0), Token(u)))
       ELSE /\ users[u].access_token # Token(u)
            /\ users' = [users EXCEPT ![u].access_token = Token(u)]
    /\ UNCHANGED <<breweries, beers, checkins, friendships, run, trace, nruns, agg>>

\* update_socketio up to the profile request: the caller is the identity of
\* a JWT, which auth_callback issues to a user it has stored a credential
\* for; the request's username names the user t of the data source (its
\* spelling is drawn where it is compared, in FindUser).
StartRun(r, caller, t, e) ==
    /\ Ended(r)
    /\ nruns < MaxRuns
    /\ KeyStored(users, caller)
    /\ users[get_user_from_db(users[caller].user_name)].access_token # EmptyString
    /\ run' = [run EXCEPT ![r] =
                  [Idle EXCEPT !.pc = "user_info", !.id = nruns + 1,
                               !.target = t, !.epoch = e]]
    /\ trace' = [trace EXCEPT ![r] = <<>>]
    /\ nruns' = nruns + 1
    /\ UNCHANGED <<store, agg>>

\* Where update_socketio goes on when update_beers_from_offset returns False
\* (the break of the beers range): after a failed fetch, and after handle_beer
\* met a stored Checkin.
OnFetchBeersFail == "friends_begin"
SkipsFriends == "finish"
SkipsRecord == "page_beers"
OnHandleBeerFalse == "friends_begin"
\* The same for update_friends_from_offset: the statements after the range.
SkipsPage == "page_friends"
OnFetchFriendsFail == "finish"

\* An exception nothing catches ends the handler where it is.
Crash(r, exc) == run' = [run EXCEPT ![r].pc = "crashed", ![r].exc = exc]

\* untappd_api.user_info(username, access_token) answers.
UserInfo(r, tot) ==
    /\ run[r].pc = "user_info"
    /\ run' = [run EXCEPT ![r].pc = "find_user",
                          ![r].raw_user =
                              raw_user(run[r].target, run[r].epoch, tot[1], tot[2])]
    /\ Emit(r, Event("fetch", "user_info", 0, 0))
    /\ UNCHANGED <<store, nruns, agg>>

\* untappd_api.user_info raises (raise_for_status): nothing catches it.
UserInfoFails(r) ==
    /\ run[r].pc = "user_info"
    /\ Crash(r, "HTTPError")
    /\ trace' = [trace EXCEPT ![r] =
                    @ \o <<Event("fetch", "user_info", 0, 0),
                           Event("error", "user_info", 0, 0)>>]
    /\ UNCHANGED <<store, nruns, agg>>

\* user = get_user_from_db(username)
FindUser(r, username) ==
    /\ run[r].pc = "find_user"
    /\ username \in Spellings(run[r].target)
    /\ LET user == get_user_from_db(username)
       IN run' = [run EXCEPT ![r].user = user,
                             ![r].pc = IF user = None THEN "add_user"
                                                      ELSE "update_user"]
    /\ UNCHANGED <<store, trace, nruns, agg>>

\* user = add_user(raw_user, ""); beer_count = user.total_beers
AddUser(r) ==
    /\ run[r].pc = "add_user"
    /\ LET raw == run[r].raw_user
       IN /\ users' = InsertRow(users, raw.uid, add_user(raw, EmptyString))
          /\ IF KeyStored(users, raw.uid)
             THEN Crash(r, "IntegrityError")
             ELSE run' = [run EXCEPT ![r].user = raw.uid,
                                     ![r].raw_user = None,
                                     ![r].beer_count = users'[raw.uid].total_beers,
                                     ![r].offset = 0,
                                     ![r].pc = "beers_loop"]
    /\ UNCHANGED <<breweries, beers, checkins, friendships, trace, nruns, agg>>

\* user = update_user(user, raw_user); beer_count = user.total_beers
UpdateUser(r) ==
    /\ run[r].pc = "update_user"
    /\ users' = [users EXCEPT ![run[r].user] = update_user(@, run[r].raw_user)]
    /\ run' = [run EXCEPT ![r].raw_user = None,
                          ![r].beer_count = users'[run[r].user].total_beers,
                          ![r].offset = 0,
                          ![r].pc = "beers_loop"]
    /\ UNCHANGED <<breweries, beers, checkins, friendships, trace, nruns, agg>>

ProgressBeersSilent(r) ==
    /\ run[r].pc = "beers_loop"
    /\ run[r].offset < run[r].beer_count
    /\ run' = [run EXCEPT ![r].pc = "fetch_beers"]
    /\ UNCHANGED <<store, trace, nruns, agg>>
\* for offset in range(0, beer_count, 50): the emit of update_beers_from_offset
ProgressBeers(r) ==
    /\ run[r].pc = "beers_loop"
    /\ run[r].offset < run[r].beer_count
    /\ run' = [run EXCEPT ![r].pc = "fetch_beers"]
    /\ Emit(r, Event("progress", "checkins", run[r].offset, run[r].beer_count))
    /\ UNCHANGED <<store, nruns, agg>>

\* the range is exhausted
BeersDone(r) ==
    /\ run[r].pc = "beers_loop"
    /\ run[r].offset >= run[r].beer_count
    /\ run' = [run EXCEPT ![r].pc = "friends_begin"]
    /\ UNCHANGED <<store, trace, nruns, agg>>

\* untappd_api.user_beers(username, offset, 50, access_token) answers with
\* n items, at most the limit it was asked for
FetchBeers(r, n) ==
    /\ run[r].pc = "fetch_beers"
    /\ n \in 0..BeerLimit
    /\ run' = [run EXCEPT ![r].pc = "page_beers", ![r].todo = n,
                          ![r].seen = {}, ![r].page_writes = 0]
    /\ Emit(r, Event("fetch", "checkins", run[r].offset, BeerLimit))
    /\ UNCHANGED <<store, nruns, agg>>

\* except: return False, and the caller's break
FetchBeersFails(r) ==
    /\ run[r].pc = "fetch_beers"
    /\ run' = [run EXCEPT ![r].pc = OnFetchBeersFail]
    /\ trace' = [trace EXCEPT ![r] =
                    @ \o <<Event("fetch", "checkins", run[r].offset, BeerLimit),
                           Event("error", "checkins", run[r].offset, BeerLimit)>>]
    /\ UNCHANGED <<store, nruns, agg>>

PageBeersDoneShort(r) ==
    /\ run[r].pc = "page_beers"
    /\ run[r].todo = 0
    /\ run' = [run EXCEPT ![r].pc = "beers_loop", ![r].seen = {},
                          ![r].offset = @ + FriendStep]
    /\ UNCHANGED <<store, trace, nruns, agg>>
\* the page is exhausted: return True, and the next offset of the range
PageBeersDone(r) ==
    /\ run[r].pc = "page_beers"
    /\ run[r].todo = 0
    /\ run' = [run EXCEPT ![r].pc = "beers_loop", ![r].seen = {},
                          ![r].offset = @ + BeerStep]
    /\ UNCHANGED <<store, trace, nruns, agg>>

\* handle_beer: Brewery.query.filter_by(id=...).first() on the next item,
\* the record of beer b
FindBrewery(r, b) ==
    /\ run[r].pc = "page_beers"
    /\ run[r].todo > 0
    /\ b \notin run[r].seen
    /\ LET raw == raw_beer(run[r].user, b, run[r].epoch)
           found == KeyStored(breweries, raw.brewery.brewery_id)
       IN /\ run' = [run EXCEPT ![r].raw = raw,
                             ![r].seen = @ \cup {b},
                             ![r].brewery = IF found THEN raw.brewery.brewery_id
                                                     ELSE None,
                             ![r].pc = IF found THEN "find_beer"
                                                ELSE "add_brewery"]
          /\ breweries' = IF found
                          THEN FoundRow(breweries, raw.brewery.brewery_id,
                                        add_brewery(raw.brewery))
                          ELSE breweries
    /\ UNCHANGED <<users, beers, checkins, friendships, trace, nruns, agg>>

AddBreweryLost(r) ==
    /\ run[r].pc = "add_brewery"
    /\ run' = [run EXCEPT ![r].brewery = run[r].raw.brewery.brewery_id,
                          ![r].pc = "find_beer"]
    /\ UNCHANGED <<store, trace, nruns, agg>>
\* brewery = add_brewery(raw_beer["brewery"])
AddBrewery(r) ==
    /\ run[r].pc = "add_brewery"
    /\ LET id == run[r].raw.brewery.brewery_id
       IN /\ breweries' = InsertRow(breweries, id, add_brewery(run[r].raw.brewery))
          /\ IF KeyStored(breweries, id)
             THEN Crash(r, "IntegrityError")
             ELSE run' = [run EXCEPT ![r].brewery = id, ![r].pc = "find_beer",
                                     ![r].page_writes = @ + 1]
    /\ UNCHANGED <<users, beers, checkins, friendships, trace, nruns, agg>>

\* beer = Beer.query.filter_by(id=raw_beer["beer"]["bid"]).first()
FindBeer(r) ==
    /\ run[r].pc = "find_beer"
    /\ LET found == KeyStored(beers, run[r].raw.beer.bid)
       IN /\ run' = [run EXCEPT ![r].beer = IF found THEN run[r].raw.beer.bid
                                                     ELSE None,
                                ![r].pc = IF found THEN "find_checkin"
                                                   ELSE "add_beer"]
          /\ beers' = IF found
                      THEN FoundRow(beers, run[r].raw.beer.bid,
                                    add_beer(run[r].raw.beer, run[r].brewery))
                      ELSE beers
    /\ UNCHANGED <<users, breweries, checkins, friendships, trace, nruns, agg>>

\* beer = add_beer(raw_beer["beer"], brewery)
AddBeer(r) ==
    /\ run[r].pc = "add_beer"
    /\ LET id == run[r].raw.beer.bid
       IN /\ beers' = InsertRow(beers, id, add_beer(run[r].raw.beer, run[r].brewery))
          /\ IF KeyStored(beers, id)
             THEN Crash(r, "IntegrityError")
             ELSE run' = [run EXCEPT ![r].beer = id, ![r].pc = "find_checkin",
                                     ![r].page_writes = @ + 1]
    /\ UNCHANGED <<users, breweries, checkins, friendships, trace, nruns, agg>>

FindCheckinGoesOn(r) ==
    /\ run[r].pc = "find_checkin"
    /\ IF KeyStored(checkins, run[r].raw.first_checkin_id)
       THEN run' = [run EXCEPT ![r].pc = "page_beers", ![r].todo = @ - 1,
                               ![r].raw = None, ![r].brewery = None,
                               ![r].beer = None]
       ELSE run' = [run EXCEPT ![r].pc = "add_checkin"]
    /\ UNCHANGED <<store, trace, nruns, agg>>
\* checkin = Checkin.query.filter_by(id=raw_beer["first_checkin_id"]).first();
\* a stored one: return False, which ends the page and breaks the range
FindCheckin(r) ==
    /\ run[r].pc = "find_checkin"
    /\ IF KeyStored(checkins, run[r].raw.first_checkin_id)
       THEN /\ checkins' = FoundRow(checkins, run[r].raw.first_checkin_id,
                                    new_checkin(run[r].raw, run[r].beer, run[r].user))
            /\ run' = [run EXCEPT ![r].pc = OnHandleBeerFalse, ![r].raw = None,
                                  ![r].seen = {},
                                  ![r].brewery = None, ![r].beer = None]
            /\ Emit(r, Event("dup", "checkins", run[r].offset, 0))
       ELSE /\ run' = [run EXCEPT ![r].pc = "add_checkin"]
            /\ UNCHANGED <<checkins, trace>>
    /\ UNCHANGED <<users, breweries, beers, friendships, nruns, agg>>

\* db.session.add(checkin); db.session.commit(); return True
AddCheckin(r) ==
    /\ run[r].pc = "add_checkin"
    /\ LET id == run[r].raw.first_checkin_id
       IN /\ checkins' = InsertRow(checkins, id,
                             new_checkin(run[r].raw, run[r].beer, run[r].user))
          /\ IF KeyStored(checkins, id)
             THEN Crash(r, "IntegrityError")
             ELSE run' = [run EXCEPT ![r].pc = "page_beers", ![r].todo = @ - 1,
                                     ![r].raw = None, ![r].brewery = None,
                                     ![r].beer = None,
                                     ![r].page_writes = @ + 1]
    /\ UNCHANGED <<users, breweries, beers, friendships, trace, nruns, agg>>

\* friend_count = user.total_friends, read back from the store
BeginFriends(r) ==
    /\ run[r].pc = "friends_begin"
    /\ run' = [run EXCEPT ![r].pc = "friends_loop", ![r].offset = 0,
                          ![r].todo = 0, ![r].seen = {},
                          ![r].friend_count = users[run[r].user].total_friends]
    /\ UNCHANGED <<store, trace, nruns, agg>>

\* for offset in range(0, friend_count, 25): the emit of
\* update_friends_from_offset
ProgressFriends(r) ==
    /\ run[r].pc = "friends_loop"
    /\ run[r].offset < run[r].friend_count
    /\ run' = [run EXCEPT ![r].pc = "fetch_friends"]
    /\ Emit(r, Event("progress", "friends", run[r].offset, run[r].friend_count))
    /\ UNCHANGED <<store, nruns, agg>>

\* the range is exhausted
FriendsDone(r) ==
    /\ run[r].pc = "friends_loop"
    /\ run[r].offset >= run[r].friend_count
    /\ run' = [run EXCEPT ![r].pc = "finish"]
    /\ UNCHANGED <<store, trace, nruns, agg>>

\* untappd_api.user_friends(username, offset, 50, access_token) answers
\* with n items
FetchFriends(r, n) ==
    /\ run[r].pc = "fetch_friends"
    /\ n \in 0..Cardinality(UserIds \ {run[r].user})
    /\ run' = [run EXCEPT ![r].pc = "page_friends", ![r].todo = n,
                          ![r].seen = {}]
    /\ Emit(r, Event("fetch", "friends", run[r].offset, FriendLimit))
    /\ UNCHANGED <<store, nruns, agg>>

\* except: return False, and the caller's break
FetchFriendsFails(r) ==
    /\ run[r].pc = "fetch_friends"
    /\ run' = [run EXCEPT ![r].pc = OnFetchFriendsFail]
    /\ trace' = [trace EXCEPT ![r] =
                    @ \o <<Event("fetch", "friends", run[r].offset, FriendLimit),
                           Event("error", "friends", run[r].offset, FriendLimit)>>]
    /\ UNCHANGED <<store, nruns, agg>>

\* the page is exhausted: return True, and the next offset of the range
PageFriendsDone(r) ==
    /\ run[r].pc = "page_friends"
    /\ run[r].todo = 0
    /\ run' = [run EXCEPT ![r].pc = "friends_loop", ![r].seen = {},
                          ![r].offset = @ + FriendStep]
    /\ UNCHANGED <<store, trace, nruns, agg>>

\* handle_friend: User.query.filter_by(id=...).first() on the next item,
\* the record of friend f
FindFriend(r, f) ==
    /\ run[r].pc = "page_friends"
    /\ run[r].todo > 0
    /\ f # run[r].user
    /\ f \notin run[r].seen
    /\ LET found == KeyStored(users, f)
       IN run' = [run EXCEPT ![r].raw = raw_friend(run[r].user, f, run[r].epoch),
                             ![r].seen = @ \cup {f},
                             ![r].friend = IF found THEN f ELSE None,
                             ![r].pc = IF found THEN "find_friendship"
                                                ELSE "add_friend"]
    /\ UNCHANGED <<store, trace, nruns, agg>>

\* db.session.add(friend); db.session.commit()
AddFriend(r) ==
    /\ run[r].pc = "add_friend"
    /\ LET id == run[r].raw.user.uid
       IN /\ users' = InsertRow(users, id, friend_user(run[r].raw))
          /\ IF KeyStored(users, id)
             THEN Crash(r, "IntegrityError")
             ELSE run' = [run EXCEPT ![r].friend = id,
                                     ![r].page_writes = @ + 1,
                                     ![r].pc = "find_friendship"]
    /\ UNCHANGED <<breweries, beers, checkins, friendships, trace, nruns, agg>>

\* The query of handle_friend for a Friendship of the pair; a stored one
\* ends handle_friend with True.
FindFriendshipStep(r) ==
    /\ run[r].pc = "find_friendship"
    /\ IF FindFriendship(friendships, run[r].user, run[r].friend) # {}
       THEN run' = [run EXCEPT ![r].pc = "page_friends", ![r].todo = @ - 1,
                               ![r].raw = None, ![r].friend = None]
       ELSE run' = [run EXCEPT ![r].pc = "add_friendship"]
    /\ UNCHANGED <<store, trace, nruns, agg>>

\* Friendship(hash, user1=user, user2=friend); add; commit; return True
AddFriendship(r) ==
    /\ run[r].pc = "add_friendship"
    /\ LET hash == run[r].raw.friendship_hash
       IN /\ friendships' = InsertRow(friendships, hash,
                                [user1_id |-> run[r].user, user2_id |-> run[r].friend])
          /\ IF KeyStored(friendships, hash)
             THEN Crash(r, "IntegrityError")
             ELSE run' = [run EXCEPT ![r].pc = "page_friends", ![r].todo = @ - 1,
                                     ![r].page_writes = @ + 1,
                                     ![r].raw = None, ![r].friend = None]
    /\ UNCHANGED <<users, breweries, beers, checkins, trace, nruns, agg>>

\* datetime.datetime.utcnow(): the instant is the number of runs begun.
utcnow == nruns

StampsOnFullSync(r) ==
    \A i \in DOMAIN trace[r] : trace[r][i].ev \notin {"dup", "error"}
\* Whether the end of update_socketio stamps the user.
StampsLastUpdate(r) == TRUE

\* user.last_update = utcnow(); commit; emit("update:finished")
Finish(r) ==
    /\ run[r].pc = "finish"
    /\ users' = IF StampsLastUpdate(r)
                THEN [users EXCEPT ![run[r].user].last_update = utcnow]
                ELSE users
    /\ run' = [run EXCEPT ![r].pc = "done"]
    /\ Emit(r, Event("finished", "update", 0, 0))
    /\ UNCHANGED <<breweries, beers, checkins, friendships, nruns, agg>>

\* ---------------------------------------------------- the specifications
Quiet == \A r \in Slots : Ended(r)
\* Runs one after the other; authentications at any time.
Next ==
    \/ \E u \in UserIds : Authenticate(u, 1)
    \/ \E c \in UserIds, t \in UserIds, e \in {1, nruns + 1} :
          Quiet /\ StartRun(1, c, t, e)
    \/ \E r \in Slots, tot \in Totals : UserInfo(r, tot)
    \/ \E r \in Slots : UserInfoFails(r)
    \/ \E r \in Slots, t \in UserIds : \E name \in Spellings(t) : FindUser(r, name)
    \/ \E r \in Slots : AddUser(r)
    \/ \E r \in Slots : UpdateUser(r)
    \/ \E r \in Slots : ProgressBeers(r)
    \/ \E r \in Slots : BeersDone(r)
    \/ \E r \in Slots, n \in 0..Cardinality(BeerIds) : FetchBeers(r, n)
    \/ \E r \in Slots : FetchBeersFails(r)
    \/ \E r \in Slots : PageBeersDone(r)
    \/ \E r \in Slots, b \in BeerIds : FindBrewery(r, b)
    \/ \E r \in Slots : AddBrewery(r)
    \/ \E r \in Slots : FindBeer(r)
    \/ \E r \in Slots : AddBeer(r)
    \/ \E r \in Slots : FindCheckin(r)
    \/ \E r \in Slots : AddCheckin(r)
    \/ \E r \in Slots : BeginFriends(r)
    \/ \E r \in Slots : ProgressFriends(r)
    \/ \E r \in Slots : FriendsDone(r)
    \/ \E r \in Slots, n \in 0..Cardinality(UserIds) : FetchFriends(r, n)
    \/ \E r \in Slots : FetchFriendsFails(r)
    \/ \E r \in Slots : PageFriendsDone(r)
    \/ \E r \in Slots, f \in UserIds : FindFriend(r, f)
    \/ \E r \in Slots : AddFriend(r)
    \/ \E r \in Slots : FindFriendshipStep(r)
    \/ \E r \in Slots : AddFriendship(r)
    \/ \E r \in Slots : Finish(r)

Spec == Init /\ [][Next]_vars

\* Runs of different users may overlap: a run begins while no run of its
\* user is under way.  The profiles report one page of beers and one of
\* friends.
OnePage == {<<BeerStep, FriendStep>>}
OtherUsers(t) == \A q \in Slots : Active(q) => run[q].target # t

NextDiff ==
    \/ \E u \in UserIds : Authenticate(u, 1)
    \/ \E r \in Slots, c \in UserIds, t \in UserIds, e \in {1, nruns + 1} :
          OtherUsers(t) /\ StartRun(r, c, t, e)
    \/ \E r \in Slots, tot \in OnePage : UserInfo(r, tot)
    \/ \E r \in Slots : UserInfoFails(r)
    \/ \E r \in Slots, t \in UserIds : \E name \in Spellings(t) : FindUser(r, name)
    \/ \E r \in Slots : AddUser(r)
    \/ \E r \in Slots : UpdateUser(r)
    \/ \E r \in Slots : ProgressBeers(r)
    \/ \E r \in Slots : BeersDone(r)
    \/ \E r \in Slots, n \in 0..Cardinality(BeerIds) : FetchBeers(r, n)
    \/ \E r \in Slots : FetchBeersFails(r)
    \/ \E r \in Slots : PageBeersDone(r)
    \/ \E r \in Slots, b \in BeerIds : FindBrewery(r, b)
    \/ \E r \in Slots : AddBrewery(r)
    \/ \E r \in Slots : FindBeer(r)
    \/ \E r \in Slots : AddBeer(r)
    \/ \E r \in Slots : FindCheckin(r)
    \/ \E r \in Slots : AddCheckin(r)
    \/ \E r \in Slots : BeginFriends(r)
    \/ \E r \in Slots : ProgressFriends(r)
    \/ \E r \in Slots : FriendsDone(r)
    \/ \E r \in Slots, n \in 0..Cardinality(UserIds) : FetchFriends(r, n)
    \/ \E r \in Slots : FetchFriendsFails(r)
    \/ \E r \in Slots : PageFriendsDone(r)
    \/ \E r \in Slots, f \in UserIds : FindFriend(r, f)
    \/ \E r \in Slots : AddFriend(r)
    \/ \E r \in Slots : FindFriendshipStep(r)
    \/ \E r \in Slots : AddFriendship(r)
    \/ \E r \in Slots : Finish(r)

SpecDiff == Init /\ [][NextDiff]_vars

\* Runs of one user may overlap: a run begins while every run under way is
\* of its user.  The profiles report one page of beers and one of friends.
SameUser(t) == \A q \in Slots : Active(q) => run[q].target = t

NextSame ==
    \/ \E u \in UserIds : Authenticate(u, 1)
    \/ \E r \in Slots, c \in UserIds, t \in UserIds, e \in {1, nruns + 1} :
          SameUser(t) /\ StartRun(r, c, t, e)
    \/ \E r \in Slots, tot \in OnePage : UserInfo(r, tot)
    \/ \E r \in Slots : UserInfoFails(r)
    \/ \E r \in Slots, t \in UserIds : \E name \in Spellings(t) : FindUser(r, name)
    \/ \E r \in Slots : AddUser(r)
    \/ \E r \in Slots : UpdateUser(r)
    \/ \E r \in Slots : ProgressBeers(r)
    \/ \E r \in Slots : BeersDone(r)
    \/ \E r \in Slots, n \in 0..Cardinality(BeerIds) : FetchBeers(r, n)
    \/ \E r \in Slots : FetchBeersFails(r)
    \/ \E r \in Slots : PageBeersDone(r)
    \/ \E r \in Slots, b \in BeerIds : FindBrewery(r, b)
    \/ \E r \in Slots : AddBrewery(r)
    \/ \E r \in Slots : FindBeer(r)
    \/ \E r \in Slots : AddBeer(r)
    \/ \E r \in Slots : FindCheckin(r)
    \/ \E r \in Slots : AddCheckin(r)
    \/ \E r \in Slots : BeginFriends(r)
    \/ \E r \in Slots : ProgressFriends(r)
    \/ \E r \in Slots : FriendsDone(r)
    \/ \E r \in Slots, n \in 0..Cardinality(UserIds) : FetchFriends(r, n)
    \/ \E r \in Slots : FetchFriendsFails(r)
    \/ \E r \in Slots : PageFriendsDone(r)
    \/ \E r \in Slots, f \in UserIds : FindFriend(r, f)
    \/ \E r \in Slots : AddFriend(r)
    \/ \E r \in Slots : FindFriendshipStep(r)
    \/ \E r \in Slots : AddFriendship(r)
    \/ \E r \in Slots : Finish(r)

SpecSame == Init /\ [][NextSame]_vars

\* A data source whose lists stand still.  User 1 has one record more than a
\* page holds, newest first; user 2 has none.  Each is the other's one friend.
beer_list(u) == IF u = 1 THEN [i \in 1..(BeerStep + 1) |-> i] ELSE <<>>
friend_list(u) == IF u \in UserIds THEN <<CHOOSE f \in UserIds : f # u>> ELSE <<>>
Min(a, b) == IF a < b THEN a ELSE b
\* params = {"offset": offset, "limit": limit}: the records after the first
\* offset ones, limit of them at most.
Slice(list, offset, limit) == SubSeq(list, offset + 1, Min(offset + limit, Len(list)))
user_beers(u, offset, limit) == Slice(beer_list(u), offset, limit)
user_friends(u, offset, limit) == Slice(friend_list(u), offset, limit)
\* stats of user/info: the totals are the lengths of the lists.
user_info(u) == <<Len(beer_list(u)), Len(friend_list(u))>>
\* for raw_beer in beers / for raw_friend in friends: the item the loop is at.
NextOf(page, todo) == page[Len(page) - todo + 1]
NextBeer(r) == NextOf(user_beers(run[r].target, run[r].offset, BeerLimit), run[r].todo)
NextFriend(r) ==
    NextOf(user_friends(run[r].target, run[r].offset, FriendLimit), run[r].todo)
\* The slot of the next run: the run before it stays readable in the other.
NextSlot == (nruns % Cardinality(Slots)) + 1

\* Runs one after the other against the lists above.
NextList ==
    \/ \E u \in UserIds : Authenticate(u, 1)
    \/ \E c \in UserIds, t \in UserIds, e \in {1, nruns + 1} :
          Quiet /\ StartRun(NextSlot, c, t, e)
    \/ \E r \in Slots : run[r].pc = "user_info" /\ UserInfo(r, user_info(run[r].target))
    \/ \E r \in Slots : UserInfoFails(r)
    \/ \E r \in Slots, t \in UserIds : \E name \in Spellings(t) : FindUser(r, name)
    \/ \E r \in Slots : AddUser(r)
    \/ \E r \in Slots : UpdateUser(r)
    \/ \E r \in Slots : ProgressBeers(r)
    \/ \E r \in Slots : BeersDone(r)
    \/ \E r \in Slots :
          /\ run[r].pc = "fetch_beers"
          /\ FetchBeers(r, Len(user_beers(run[r].target, run[r].offset, BeerLimit)))
    \/ \E r \in Slots : FetchBeersFails(r)
    \/ \E r \in Slots : PageBeersDone(r)
    \/ \E r \in Slots :
          run[r].pc = "page_beers" /\ run[r].todo > 0 /\ FindBrewery(r, NextBeer(r))
    \/ \E r \in Slots : AddBrewery(r)
    \/ \E r \in Slots : FindBeer(r)
    \/ \E r \in Slots : AddBeer(r)
    \/ \E r \in Slots : FindCheckin(r)
    \/ \E r \in Slots : AddCheckin(r)
    \/ \E r \in Slots : BeginFriends(r)
    \/ \E r \in Slots : ProgressFriends(r)
    \/ \E r \in Slots : FriendsDone(r)
    \/ \E r \in Slots :
          /\ run[r].pc = "fetch_friends"
          /\ FetchFriends(r, Len(user_friends(run[r].target, run[r].offset, FriendLimit)))
    \/ \E r \in Slots : FetchFriendsFails(r)
    \/ \E r \in Slots : PageFriendsDone(r)
    \/ \E r \in Slots :
          run[r].pc = "page_friends" /\ run[r].todo > 0 /\ FindFriend(r, NextFriend(r))
    \/ \E r \in Slots : AddFriend(r)
    \/ \E r \in Slots : FindFriendshipStep(r)
    \/ \E r \in Slots : AddFriendship(r)
    \/ \E r \in Slots : Finish(r)

SpecList == Init /\ [][NextList]_vars

\* ------------------------------------------------------------ the claims
Has(r, ev, action) ==
    \E i \in DOMAIN trace[r] : trace[r][i].ev = ev /\ trace[r][i].action = action
HasDup(r) == Has(r, "dup", "checkins")
\* The pairs i < j of positions of the events of run r.
Later(r) == {p \in (DOMAIN trace[r]) \X (DOMAIN trace[r]) : p[1] < p[2]}
Completed(r) == run[r].pc = "done"

\* C1, as the spec states it: once handle_beer has met a stored Checkin, the
\* run emits no further progress event and requests no further page, of the
\* beers or of the friends.
C1_HaltsWholeRun ==
    \A r \in Slots : \A p \in Later(r) :
        trace[r][p[1]].ev = "dup" => trace[r][p[2]].ev \notin {"progress", "fetch"}

\* C1, amended: once handle_beer has met a stored Checkin, the run requests no
\* further beers page and announces none, and the friends phase runs as in
\* any other run: a completed run whose user has friends announced its first
\* friends page after the duplicate.
C1_HaltsBeersOnly ==
    \A r \in Slots :
        /\ \A p \in Later(r) :
              trace[r][p[1]].ev = "dup" => trace[r][p[2]].action # "checkins"
        /\ (Completed(r) /\ HasDup(r) /\ users[run[r].user].total_friends > 0) =>
              \E p \in Later(r) :
                  /\ trace[r][p[1]].ev = "dup"
                  /\ trace[r][p[2]] = Event("progress", "friends", 0,
                                            users[run[r].user].total_friends)

C1_Witness ==
    \E r \in Slots :
        /\ Completed(r)
        /\ Has(r, "fetch", "friends")
        /\ run[r].beer_count > BeerStep
        /\ \E i \in DOMAIN trace[r] : trace[r][i] = Event("dup", "checkins", 0, 0)

\* C2, as the spec states it: a run that has met a stored Checkin has
\* inserted no row since it requested the page of that record.
C2_NoWriteFromThatPage ==
    \A r \in Slots : HasDup(r) => run[r].page_writes = 0

\* C2, amended: after handle_beer has met a stored Checkin, the run inserts no
\* Brewery, no Beer and no Checkin; the records before it on its page were
\* written, and the friends phase still inserts Users and Friendships.
C2_NoBeerWriteAfterDuplicate ==
    [][\A r \in Slots : HasDup(r) => ~(AddBrewery(r) \/ AddBeer(r) \/ AddCheckin(r))]_vars

C2_Witness ==
    \E r \in Slots : Completed(r) /\ HasDup(r) /\ run[r].page_writes > 1

\* C3, as the spec states it: after a page request has failed, the run
\* requests no further page of any phase.
C3_NoFetchAfterFailure ==
    \A r \in Slots : \A p \in Later(r) :
        (trace[r][p[1]].ev = "error" /\ trace[r][p[1]].action # "user_info")
            => trace[r][p[2]].ev # "fetch"

\* C3, amended: after a page request has failed, the run requests no further
\* page of that phase; a failed beers request is followed by the friends
\* phase (a completed run whose user has friends requested a friends page
\* after it), and a failed friends request is the run's last request.
C3_NoFetchOfThatPhase ==
    \A r \in Slots :
        /\ \A p \in Later(r) :
              (trace[r][p[1]].ev = "error" /\ trace[r][p[2]].ev = "fetch")
                  => (trace[r][p[1]].action = "checkins"
                      /\ trace[r][p[2]].action = "friends")
        /\ (Completed(r) /\ Has(r, "error", "checkins")
                         /\ users[run[r].user].total_friends > 0)
              => \E p \in Later(r) :
                    /\ trace[r][p[1]] = Event("error", "checkins",
                                              trace[r][p[1]].offset, BeerLimit)
                    /\ trace[r][p[2]] = Event("fetch", "friends", 0, FriendLimit)

C3_Witness ==
    \E r \in Slots :
        /\ Completed(r)
        /\ Has(r, "error", "checkins")
        /\ Has(r, "error", "friends")
        /\ run[r].friend_count > FriendStep

\* C4, as the spec states it: a run that exited early or met a failed request
\* leaves the last_update of its user as it was.
C4_OnlyOnFullCompletion ==
    \A r \in Slots :
        (Completed(r) /\ (HasDup(r) \/ Has(r, "error", "checkins")
                                    \/ Has(r, "error", "friends")))
            => users[run[r].user].last_update # run[r].id

\* C4, amended: every run that reaches the end of update_socketio stamps
\* last_update, after a full sync, an early exit and a failed page request
\* alike; until then, and in a run the profile request ended, last_update is
\* as the run found it.
C4_StampedAtEveryEnd ==
    \A r \in Slots :
        /\ Completed(r) => users[run[r].user].last_update = run[r].id
        /\ (run[r].pc \notin {"idle", "done"} /\ KeyStored(users, run[r].target))
              => users[run[r].target].last_update < run[r].id

C4_Witness ==
    \E r \in Slots :
        /\ Completed(r)
        /\ HasDup(r)
        /\ run[r].id = 2
        /\ users[run[r].user].last_update = 2

\* C6: at most one Friendship row per unordered pair of users, and a stored
\* row stays as it was written: handle_friend inserts nothing for a pair
\* that is stored in either order, whatever hash the source reports.
SamePair(f, g) == {f.user1_id, f.user2_id} = {g.user1_id, g.user2_id}
C6_OneFriendshipPerPair ==
    /\ [](\A h \in DOMAIN friendships : \A k \in DOMAIN friendships :
             SamePair(friendships[h], friendships[k]) => h = k)
    /\ [][\A h \in DOMAIN friendships :
             h \in DOMAIN friendships' /\ friendships'[h] = friendships[h]]_vars

\* The run of one user is at the Friendship query for a friend whose own run
\* stored the pair the other way round, under another hash.
C6_Witness ==
    \E r \in Slots :
        /\ run[r].pc = "find_friendship"
        /\ run[r].raw.friendship_hash \notin DOMAIN friendships
        /\ \E h \in DOMAIN friendships :
              /\ friendships[h].user1_id = run[r].friend
              /\ friendships[h].user2_id = run[r].user

\* C7: the k-th friends request of a run asks for offset 25*k with limit 25,
\* below total_friends, and consecutive requests ask for disjoint ranges.
FriendFetches(r) ==
    SelectSeq(trace[r], LAMBDA e : e.ev = "fetch" /\ e.action = "friends")
C7_FriendsPagedBy25 ==
    \A r \in Slots :
        LET fs == FriendFetches(r)
        IN \A k \in DOMAIN fs :
              /\ fs[k].offset = 25 * (k - 1)
              /\ fs[k].n = 25
              /\ fs[k].offset < run[r].friend_count
              /\ k > 1 => fs[k - 1].offset + fs[k - 1].n <= fs[k].offset

\* C8: the step after get_user_from_db creates the user when no row bears the
\* name in any spelling, from the profile and with an empty access_token, and
\* otherwise overwrites first_name, last_name, avatar, avatar_hd and the four
\* totals of that row alone.
C8_CreateOrUpdateProfile ==
    [][\A r \in Slots :
          /\ (run[r].pc = "find_user" /\ run'[r].pc = "add_user")
                => ~KeyStored(users, run[r].target)
          /\ (run[r].pc = "find_user" /\ run'[r].pc = "update_user")
                => (run'[r].user = run[r].target /\ KeyStored(users, run[r].target))
          /\ (run[r].pc = "add_user" /\ run'[r].pc = "beers_loop")
                => LET raw == run[r].raw_user
                   IN /\ ~KeyStored(users, raw.uid)
                      /\ DOMAIN users' = DOMAIN users \cup {raw.uid}
                      /\ \A u \in DOMAIN users : users'[u] = users[u]
                      /\ users'[raw.uid].access_token = EmptyString
                      /\ users'[raw.uid].user_name = raw.user_name
                      /\ users'[raw.uid].first_name = raw.first_name
                      /\ users'[raw.uid].total_beers = raw.stats.total_beers
          /\ (run[r].pc = "update_user" /\ run'[r].pc = "beers_loop")
                => LET raw == run[r].raw_user
                       old == users[run[r].user]
                       new == users'[run[r].user]
                   IN /\ DOMAIN users' = DOMAIN users
                      /\ \A u \in DOMAIN users \ {run[r].user} : users'[u] = users[u]
                      /\ run[r].user = raw.uid
                      /\ new.user_name = old.user_name
                      /\ new.access_token = old.access_token
                      /\ new.api_request_count = old.api_request_count
                      /\ new.last_update = old.last_update
                      /\ new.first_name = raw.first_name
                      /\ new.last_name = raw.last_name
                      /\ new.avatar = raw.user_avatar
                      /\ new.avatar_hd = raw.user_avatar_hd
                      /\ new.total_badges = raw.stats.total_badges
                      /\ new.total_friends = raw.stats.total_friends
                      /\ new.total_checkins = raw.stats.total_checkins
                      /\ new.total_beers = raw.stats.total_beers]_vars

\* A row with a credential, first written at epoch 1 and stamped by a run,
\* has been updated to the profile of epoch 2.
C8_Witness ==
    \E r \in Slots :
        /\ run[r].pc = "beers_loop"
        /\ run[r].epoch = 2
        /\ users[run[r].user].access_token = Token(run[r].user)
        /\ users[run[r].user].first_name = 2
        /\ users[run[r].user].last_update = 1

\* C9: a run that has ended has emitted exactly one finished notification,
\* and it is the last event of the run.
C9_EndsWithOneFinished ==
    \A r \in Slots :
        run[r].pc \in {"done", "crashed"} =>
            /\ Len(trace[r]) > 0
            /\ trace[r][Len(trace[r])].ev = "finished"
            /\ Cardinality({i \in DOMAIN trace[r] : trace[r][i].ev = "finished"}) = 1

\* C5: a stored Brewery, Beer or Checkin is never removed and never changed,
\* by any step of any run: a record whose id is stored leaves the row as it
\* was first written.
Kept(table, table2) ==
    \A id \in DOMAIN table : id \in DOMAIN table2 /\ table2[id] = table[id]
C5_RowsWrittenOnce ==
    [][Kept(breweries, breweries') /\ Kept(beers, beers') /\ Kept(checkins, checkins')]_vars

\* handle_beer has met a record whose Brewery and Beer are stored with other
\* attributes than the record carries, and whose Checkin is stored too.
C5_Witness ==
    \E r \in Slots :
        /\ run[r].pc = "find_checkin"
        /\ run[r].brewery # None
        /\ breweries[run[r].brewery].attrs # run[r].raw.brewery.attrs
        /\ run[r].beer # None
        /\ beers[run[r].beer].attrs # run[r].raw.beer.attrs
        /\ KeyStored(checkins, run[r].raw.first_checkin_id)
        /\ checkins[run[r].raw.first_checkin_id].count # run[r].raw.count

\* C10: while only runs of different users overlap, no run is refused an
\* insert because the key is stored already, and no pair of users has two
\* Friendship rows.
C10_NoDuplicateKey ==
    /\ \A r \in Slots : run[r].exc # "IntegrityError"
    /\ \A h \in DOMAIN friendships : \A k \in DOMAIN friendships :
          SamePair(friendships[h], friendships[k]) => h = k

\* ------------------------------------------------------ the read endpoints
\* datetime of the standard library: the proleptic Gregorian ordinal of a
\* date and the ISO weekday (Monday 1 ... Sunday 7) computed from it.
DateTime(y, m, d, h) == [year |-> y, month |-> m, day |-> d, hour |-> h]
is_leap(y) == y % 4 = 0 /\ (y % 100 # 0 \/ y % 400 = 0)
days_before_year(y) ==
    LET p == y - 1 IN p * 365 + (p \div 4) - (p \div 100) + (p \div 400)
days_in_month(y, m) ==
    IF m = 2 THEN (IF is_leap(y) THEN 29 ELSE 28)
    ELSE IF m \in {4, 6, 9, 11} THEN 30 ELSE 31
RECURSIVE days_before_month(_, _)
days_before_month(y, m) ==
    IF m = 1 THEN 0 ELSE days_before_month(y, m - 1) + days_in_month(y, m - 1)
toordinal(d) == days_before_year(d.year) + days_before_month(d.year, d.month) + d.day
weekday0(d) == (toordinal(d) + 6) % 7
isoweekday(d) == LET w == toordinal(d) % 7 IN IF w = 0 THEN 7 ELSE w

\* A Checkin row as the endpoints' queries load it, with its Beer and the
\* Beer's Brewery.
CheckinRow(id, rating, first_had, beer, brewery, country) ==
    [id |-> id, rating |-> rating, first_had |-> first_had, count |-> 1,
     beer |-> [id |-> beer, brewery |-> [id |-> brewery, country |-> country]]]

\* The Checkin rows of one user: two breweries of one country code, an
\* overridden name, an ISO name, a name nothing resolves, and unrated rows.
StoredCheckins ==
    {CheckinRow(1, 3, DateTime(2024, 1, 1, 14), 1, 1, "Scotland"),
     CheckinRow(2, 0, DateTime(2024, 1, 1, 20), 2, 1, "Scotland"),
     CheckinRow(3, 5, DateTime(2024, 1, 2, 14), 3, 2, "England"),
     CheckinRow(4, 4, DateTime(2023, 12, 31, 9), 4, 3, "Laos"),
     CheckinRow(5, 0, DateTime(2024, 1, 11, 9), 5, 4, "Atlantis"),
     CheckinRow(6, 2, DateTime(2024, 11, 1, 20), 6, 5, "Norway")}

\* What Checkin.query.filter_by(user=user).all() may return: rows of the
\* user, each once, in any order.
QueryResults ==
    {q \in UNION {[1..k -> StoredCheckins] : k \in 0..MaxLen} :
        \A i \in DOMAIN q : \A j \in DOMAIN q : q[i] = q[j] => i = j}

\* statistics.mean: the exact sum over the count, a fraction in lowest terms.
RECURSIVE gcd(_, _)
gcd(a, b) == IF b = 0 THEN a ELSE gcd(b, a % b)
RECURSIVE sum(_)
sum(data) == IF data = <<>> THEN 0 ELSE Head(data) + sum(Tail(data))
mean(data) ==
    LET g == gcd(sum(data), Len(data))
    IN [num |-> sum(data) \div g, den |-> Len(data) \div g]
\* The number 0 as a mean.
Zero == [num |-> 0, den |-> 1]

mean_or_zero(data) == IF Len(data) > 0 THEN mean(data) ELSE Zero
\* safe_mean: the zeros are dropped before the mean is taken.
safe_mean(data) ==
    LET kept == SelectSeq(data, LAMBDA x : x # 0)
    IN IF Len(kept) > 0 THEN mean(kept) ELSE Zero

\* The for ... else of the groupings: the first group that bears the key.
last_group(groups, key) ==
    IF groups # <<>> /\ groups[Len(groups)].key = key THEN Len(groups) ELSE 0
find_group(groups, key) ==
    LET hits == {i \in DOMAIN groups : groups[i].key = key}
    IN IF hits = {} THEN 0 ELSE CHOOSE i \in hits : \A j \in hits : i <= j

\* The groups after the first n checkins, whose keys and ratings are given.
RECURSIVE group_fold(_, _, _)
group_fold(keys, ratings, n) ==
    IF n = 0 THEN <<>>
    ELSE LET groups == group_fold(keys, ratings, n - 1)
             i == find_group(groups, keys[n])
         IN IF i # 0
            THEN [groups EXCEPT ![i].count = @ + 1,
                                ![i].ratings = Append(@, ratings[n])]
            ELSE Append(groups, [key |-> keys[n], count |-> 1,
                                 ratings |-> <<ratings[n]>>])

\* The second loop: averageRating = safe_mean(ratings); del ratings.
averaged(groups) ==
    [i \in DOMAIN groups |->
        [key |-> groups[i].key, count |-> groups[i].count,
         averageRating |-> safe_mean(groups[i].ratings)]]

Ratings(q) == [i \in DOMAIN q |-> q[i].rating]
get_dayofweek_for_username(q) ==
    averaged(group_fold([i \in DOMAIN q |-> isoweekday(q[i].first_had)],
                        Ratings(q), Len(q)))
get_timeofday_for_username(q) ==
    averaged(group_fold([i \in DOMAIN q |-> q[i].first_had.hour],
                        Ratings(q), Len(q)))
get_month_for_username(q) ==
    averaged(group_fold([i \in DOMAIN q |-> q[i].first_had.month],
                        Ratings(q), Len(q)))
get_year_for_username(q) ==
    averaged(group_fold([i \in DOMAIN q |-> q[i].first_had.year],
                        Ratings(q), Len(q)))

\* Strings that are transformed are sequences of characters; str.lower and
\* str.upper map them letter by letter.
UpperLetters == <<"A", "B", "C", "D", "E", "F", "G", "H", "I", "J", "K", "L", "M",
                  "N", "O", "P", "Q", "R", "S", "T", "U", "V", "W", "X", "Y", "Z">>
LowerLetters == <<"a", "b", "c", "d", "e", "f", "g", "h", "i", "j", "k", "l", "m",
                  "n", "o", "p", "q", "r", "s", "t", "u", "v", "w", "x", "y", "z">>
Swap(c, from, to) ==
    IF \E i \in DOMAIN from : from[i] = c
    THEN to[CHOOSE i \in DOMAIN from : from[i] = c] ELSE c
str_lower(s) == [i \in DOMAIN s |-> Swap(s[i], UpperLetters, LowerLetters)]
str_upper(s) == [i \in DOMAIN s |-> Swap(s[i], LowerLetters, UpperLetters)]

COUNTRY_CODE_MAPPING_TABLE ==
    [name \in {"Aland Islands", "Bolivia", "China / People's Republic of China",
               "England", "Ivory Coast", "Czech Republic",
               "Democratic Republic of the Congo", "Kosovo", "Laos",
               "Republic of Macedonia", "Macau", "Moldova",
               "Palestinian Territories", "Principality of Monaco",
               "Northern Ireland", "Republic of Congo", "Russia", "Scotland",
               "South Korea", "Surinam", "Taiwan", "Tanzania",
               "United States Virgin Islands", "Venezuela", "Vietnam", "Wales"} |->
        CASE name = "Aland Islands" -> <<"a", "x">>
          [] name = "Bolivia" -> <<"b", "o">>
          [] name = "China / People's Republic of China" -> <<"c", "n">>
          [] name = "England" -> <<"g", "b">>
          [] name = "Ivory Coast" -> <<"c", "i">>
          [] name = "Czech Republic" -> <<"c", "z">>
          [] name = "Democratic Republic of the Congo" -> <<"c", "d">>
          [] name = "Kosovo" -> <<"x", "k">>
          [] name = "Laos" -> <<"l", "a">>
          [] name = "Republic of Macedonia" -> <<"m", "k">>
          [] name = "Macau" -> <<"m", "o">>
          [] name = "Moldova" -> <<"m", "d">>
          [] name = "Palestinian Territories" -> <<"p", "s">>
          [] name = "Principality of Monaco" -> <<"m", "c">>
          [] name = "Northern Ireland" -> <<"g", "b">>
          [] name = "Republic of Congo" -> <<"c", "g">>
          [] name = "Russia" -> <<"r", "u">>
          [] name = "Scotland" -> <<"g", "b">>
          [] name = "South Korea" -> <<"k", "r">>
          [] name = "Surinam" -> <<"s", "r">>
          [] name = "Taiwan" -> <<"t", "w">>
          [] name = "Tanzania" -> <<"t", "z">>
          [] name = "United States Virgin Islands" -> <<"v", "i">>
          [] name = "Venezuela" -> <<"v", "e">>
          [] name = "Vietnam" -> <<"v", "n">>
          [] name = "Wales" -> <<"g", "b">>]

\* pycountry.countries: the entries of the ISO 3166 database that matter here.
pycountry_countries ==
    {[name |-> "Norway", alpha_2 |-> <<"N", "O">>],
     [name |-> "Belgium", alpha_2 |-> <<"B", "E">>],
     [name |-> "United Kingdom", alpha_2 |-> <<"G", "B">>],
     [name |-> "Lao People's Democratic Republic", alpha_2 |-> <<"L", "A">>]}

\* get_country_code: the code, whether the ISO database was asked, and the
\* number of diagnostics logged.  A name the database lacks gives None or a
\* KeyError, and either ends in the except branch.
iso_only(country) ==
    LET hits == {c \in pycountry_countries : c.name = country}
    IN IF hits # {}
       THEN [code |-> str_lower((CHOOSE c \in hits : TRUE).alpha_2),
             asked |-> TRUE, errors |-> 0]
       ELSE [code |-> <<>>, asked |-> TRUE, errors |-> 1]
get_country_code(country) ==
    IF country \in DOMAIN COUNTRY_CODE_MAPPING_TABLE
    THEN [code |-> COUNTRY_CODE_MAPPING_TABLE[country], asked |-> FALSE, errors |-> 0]
    ELSE LET hits == {c \in pycountry_countries : c.name = country}
         IN IF hits # {}
            THEN [code |-> str_lower((CHOOSE c \in hits : TRUE).alpha_2),
                  asked |-> TRUE, errors |-> 0]
            ELSE [code |-> <<>>, asked |-> TRUE, errors |-> 1]

\* checkin_schema.dump(checkin), as far as get_user_countries reads it.
checkin_dump(c) == [id |-> c.id, rating |-> c.rating]

find_country(countries, name) ==
    LET hits == {i \in DOMAIN countries : countries[i].name = name}
    IN IF hits = {} THEN 0 ELSE CHOOSE i \in hits : \A j \in hits : i <= j

\* The first loop of get_user_countries over the first n checkins.
RECURSIVE countries_fold(_, _)
countries_fold(q, n) ==
    IF n = 0 THEN <<>>
    ELSE LET countries == countries_fold(q, n - 1)
             country == q[n].beer.brewery.country
             i == find_country(countries, country)
         IN IF i # 0
            THEN [countries EXCEPT ![i].count = @ + 1,
                                   ![i].beers = Append(@, checkin_dump(q[n]))]
            ELSE Append(countries,
                        [name |-> country, count |-> 1,
                         beers |-> <<checkin_dump(q[n])>>,
                         code |-> str_upper(get_country_code(country).code)])

\* The second loop of get_user_countries: the scores are the ratings that
\* are not 0, their mean the average, 0 when there is none.
country_average(country_beers) ==
    LET scores == SelectSeq([i \in DOMAIN country_beers |-> country_beers[i].rating],
                            LAMBDA x : x # 0)
    IN IF Len(scores) > 0 THEN mean(scores) ELSE Zero

get_user_countries(q) ==
    LET countries == countries_fold(q, Len(q))
    IN [i \in DOMAIN countries |->
           [name |-> countries[i].name, count |-> countries[i].count,
            code |-> countries[i].code,
            average_rating |-> country_average(countries[i].beers)]]

always_new(breweries_, id) == 0
find_brewery(breweries_, id) ==
    LET hits == {i \in DOMAIN breweries_ : breweries_[i].id = id}
    IN IF hits = {} THEN 0 ELSE CHOOSE i \in hits : \A j \in hits : i <= j

\* The loop of get_user_country over the first n checkins.
RECURSIVE country_fold(_, _, _)
country_fold(q, country_code, n) ==
    IF n = 0 THEN [count |-> 0, ratings |-> <<>>, breweries |-> <<>>]
    ELSE LET acc == country_fold(q, country_code, n - 1)
             checkin == q[n]
             brewery == checkin.beer.brewery
             beer == [id |-> checkin.beer.id, userRating |-> checkin.rating,
                      firstHad |-> checkin.first_had, count |-> checkin.count]
             i == find_brewery(acc.breweries, brewery.id)
         IN IF country_code # get_country_code(brewery.country).code
            THEN acc
            ELSE [count |-> acc.count + 1,
                  ratings |-> Append(acc.ratings, checkin.rating),
                  breweries |->
                     IF i # 0
                     THEN [acc.breweries EXCEPT
                              ![i].count = @ + 1,
                              ![i].ratings = Append(@, checkin.rating),
                              ![i].beers = Append(@, beer)]
                     ELSE Append(acc.breweries,
                                 [id |-> brewery.id, count |-> 1,
                                  ratings |-> <<checkin.rating>>,
                                  beers |-> <<beer>>])]

get_user_country(q, code) ==
    LET country_code == str_lower(code)
        hits == {c \in pycountry_countries : c.alpha_2 = str_upper(country_code)}
        acc == country_fold(q, country_code, Len(q))
    IN IF hits = {}
       THEN [status |-> 404]
       ELSE [status |-> 200, count |-> acc.count, code |-> country_code,
             name |-> (CHOOSE c \in hits : TRUE).name,
             averageRating |-> safe_mean(acc.ratings),
             breweries |->
                [i \in DOMAIN acc.breweries |->
                    [id |-> acc.breweries[i].id, count |-> acc.breweries[i].count,
                     beers |-> acc.breweries[i].beers,
                     averageRating |-> safe_mean(acc.breweries[i].ratings)]]]

\* str of a natural number: its decimal digits.
Digits == <<"0", "1", "2", "3", "4", "5", "6", "7", "8", "9">>
RECURSIVE str(_)
str(n) == IF n < 10 THEN <<Digits[n + 1]>>
          ELSE str(n \div 10) \o <<Digits[(n % 10) + 1]>>
month_key(d) == str(d.year) \o <<"/">> \o str(d.month)
\* f"{first_had.year}/{first_had.month}/{first_had.day}"
date_key(d) == str(d.year) \o <<"/">> \o str(d.month) \o <<"/">> \o str(d.day)

find_date(dates, date) ==
    LET hits == {i \in DOMAIN dates : dates[i].date = date}
    IN IF hits = {} THEN 0 ELSE CHOOSE i \in hits : \A j \in hits : i <= j

\* The loop of get_graph_for_username over the first n checkins; sum is n.
RECURSIVE graph_fold(_, _)
graph_fold(q, n) ==
    IF n = 0 THEN <<>>
    ELSE LET dates == graph_fold(q, n - 1)
             date == date_key(q[n].first_had)
             i == find_date(dates, date)
         IN IF i # 0
            THEN [dates EXCEPT ![i].count = n, ![i].countDay = @ + 1]
            ELSE Append(dates, [date |-> date, count |-> n, countDay |-> 1])

\* order_by(Checkin.first_had.asc()): the orders of the rows in which
\* first_had never decreases.
Instant(d) == toordinal(d) * 24 + d.hour
Orders(q) ==
    {[i \in DOMAIN q |-> q[f[i]]] :
        f \in {g \in [DOMAIN q -> DOMAIN q] : \A i, j \in DOMAIN q : g[i] = g[j] => i = j}}
order_by_first_had(q) ==
    {p \in Orders(q) :
        \A i, j \in DOMAIN p : i < j => Instant(p[i].first_had) <= Instant(p[j].first_had)}
get_graph_for_username(q) == graph_fold(q, Len(q))

\* The country codes of the requests to get_user_country.
RequestCodes ==
    {<<"g", "b">>, <<"G", "B">>, <<"l", "a">>, <<"n", "o">>, <<"b", "e">>,
     <<"x", "k">>, <<"z", "z">>}

\* A read request: the query returned rows, and one endpoint answers.
InitRead ==
    /\ users = <<>>
    /\ breweries = <<>>
    /\ beers = <<>>
    /\ checkins = <<>>
    /\ friendships = <<>>
    /\ run = [r \in Slots |-> Idle]
    /\ trace = [r \in Slots |-> <<>>]
    /\ nruns = 0
    /\ rows \in QueryResults
    /\ resp = NoResp

Answer(endpoint, data) ==
    /\ resp = NoResp
    /\ resp' = [endpoint |-> endpoint, data |-> data]
    /\ UNCHANGED <<store, run, trace, nruns, rows>>

GetDayOfWeek == Answer("dayofweek", get_dayofweek_for_username(rows))
GetTimeOfDay == Answer("timeofday", get_timeofday_for_username(rows))
GetMonth == Answer("month", get_month_for_username(rows))
GetYear == Answer("year", get_year_for_username(rows))
GetUserCountries == Answer("countries", get_user_countries(rows))
GetUserCountry(code) ==
    /\ resp = NoResp
    /\ resp' = [endpoint |-> "country", code |-> code,
                data |-> get_user_country(rows, code)]
    /\ UNCHANGED <<store, run, trace, nruns, rows>>
GetGraph ==
    \E q \in order_by_first_had(rows) :
        Answer("graph", get_graph_for_username(q))

NextRead ==
    \/ GetDayOfWeek
    \/ GetTimeOfDay
    \/ GetMonth
    \/ GetYear
    \/ GetUserCountries
    \/ \E code \in RequestCodes : GetUserCountry(code)
    \/ GetGraph

SpecRead == InitRead /\ [][NextRead]_vars

\* ------------------------------------------- the claims on the endpoints
\* The ratings of the rows in hand that satisfy Keep, in the order of the rows.
RatingsWhere(Keep(_)) == Ratings(SelectSeq(rows, Keep))
\* m is 0 when data holds no rating other than 0, and otherwise the
\* arithmetic mean of the ratings other than 0.
IsMeanOfRated(m, data) ==
    LET rated == SelectSeq(data, LAMBDA x : x # 0)
    IN IF rated = <<>> THEN m = Zero
       ELSE m.den > 0 /\ m.num * Len(rated) = sum(rated) * m.den

\* C11: safe_mean is 0 for a list that is empty or all zeros and otherwise
\* the mean of the ratings other than 0; the averages of the year groups
\* (safe_mean) and of the country groups (computed inline) are that value, and
\* the inline computation agrees with safe_mean.
C11_MeanOfRated ==
    /\ safe_mean(<<>>) = Zero
    /\ safe_mean(<<0, 0, 0>>) = Zero
    /\ safe_mean(<<3, 0, 5>>) = [num |-> 4, den |-> 1]
    /\ IsMeanOfRated(safe_mean(Ratings(rows)), Ratings(rows))
    /\ country_average([i \in DOMAIN rows |-> checkin_dump(rows[i])])
          = safe_mean(Ratings(rows))
    /\ resp.endpoint = "year" =>
          \A i \in DOMAIN resp.data :
              IsMeanOfRated(resp.data[i].averageRating,
                            RatingsWhere(LAMBDA c : c.first_had.year = resp.data[i].key))
    /\ resp.endpoint = "countries" =>
          \A i \in DOMAIN resp.data :
              LET data == RatingsWhere(LAMBDA c : c.beer.brewery.country = resp.data[i].name)
              IN /\ IsMeanOfRated(resp.data[i].average_rating, data)
                 /\ resp.data[i].average_rating = safe_mean(data)

\* The year groups of ratings 3, 0 and 5 have been averaged to 4.
C11_Witness ==
    /\ resp.endpoint = "year"
    /\ \E i \in DOMAIN resp.data :
          /\ resp.data[i].count = 3
          /\ resp.data[i].averageRating = [num |-> 4, den |-> 1]
          /\ RatingsWhere(LAMBDA c : c.first_had.year = resp.data[i].key) = <<3, 0, 5>>

\* The groups of a grouping endpoint for the rows q.
Grouping(endpoint, q) ==
    CASE endpoint = "dayofweek" -> get_dayofweek_for_username(q)
      [] endpoint = "timeofday" -> get_timeofday_for_username(q)
      [] endpoint = "month" -> get_month_for_username(q)
      [] endpoint = "year" -> get_year_for_username(q)
      [] endpoint = "countries" -> get_user_countries(q)
Groupings == {"dayofweek", "timeofday", "month", "year", "countries"}
Range(seq) == {seq[i] : i \in DOMAIN seq}

\* C12: the weekday, hour, month, year and country groups of the rows in
\* any other order are the same groups (key, count and average), each once;
\* only their order may differ.
C12_OrderIndependent ==
    resp.endpoint \in Groupings =>
        \A p \in Orders(rows) :
            LET groups == Grouping(resp.endpoint, p)
            IN /\ Range(groups) = Range(resp.data)
               /\ Len(groups) = Len(resp.data)

\* Weekday groups, one of two checkins, that come in another order when the
\* rows do.
C12_Witness ==
    /\ resp.endpoint = "dayofweek"
    /\ \E i \in DOMAIN resp.data : resp.data[i].count = 2
    /\ \E p \in Orders(rows) : get_dayofweek_for_username(p) # resp.data

\* The calendar day of a row, and the rows in hand of a day.
Day(c) == <<c.first_had.year, c.first_had.month, c.first_had.day>>
Days == {Day(rows[i]) : i \in DOMAIN rows}
OnDay(date) == {i \in DOMAIN rows : date_key(rows[i].first_had) = date}
UpToDay(date) ==
    {i \in DOMAIN rows :
        \E j \in OnDay(date) : toordinal(rows[i].first_had) <= toordinal(rows[j].first_had)}

\* C13: for the rows ordered by first_had, the timeline has one entry per
\* calendar day that occurs, in ascending order of the days; countDay is the
\* number of rows of the day, count the number of rows of that day and the
\* days before, and the last count is the number of rows.
C13_TimelinePerDay ==
    resp.endpoint = "graph" =>
        LET dates == resp.data
        IN /\ Len(dates) = Cardinality(Days)
           /\ \A i \in DOMAIN dates :
                 /\ OnDay(dates[i].date) # {}
                 /\ dates[i].countDay = Cardinality(OnDay(dates[i].date))
                 /\ dates[i].count = Cardinality(UpToDay(dates[i].date))
           /\ \A i, j \in DOMAIN dates :
                 i < j => \A a \in OnDay(dates[i].date), b \in OnDay(dates[j].date) :
                             toordinal(rows[a].first_had) < toordinal(rows[b].first_had)
           /\ dates # <<>> => dates[Len(dates)].count = Len(rows)

\* Two checkins on 2024-01-01 and one on 2024-01-02, queried in another order
\* than the timeline's.
C13_Witness ==
    /\ resp.endpoint = "graph"
    /\ Len(rows) = 3
    /\ rows[1].first_had.day = 2
    /\ resp.data = <<[date |-> <<"2", "0", "2", "4", "/", "1", "/", "1">>,
                      count |-> 2, countDay |-> 2],
                     [date |-> <<"2", "0", "2", "4", "/", "1", "/", "2">>,
                      count |-> 3, countDay |-> 1]>>

\* The country names asked of get_country_code: the overridden ones, the ISO
\* names, and names neither knows (the empty one among them).
CountryNames ==
    DOMAIN COUNTRY_CODE_MAPPING_TABLE
        \cup {c.name : c \in pycountry_countries}
        \cup {"Atlantis", "", "norway", "Great Britain"}

\* C14: get_country_code answers for every name: an overridden name gives the
\* code of the table without asking the ISO database (the four countries of
\* the United Kingdom give "gb"), another name that is an ISO name gives its
\* alpha-2 code in lower case, and any other name the empty string and one
\* diagnostic; the code is empty or two lower-case letters.  The country
\* groups carry that code in upper case.
C14_CountryCodeTotal ==
    /\ \A name \in CountryNames :
          LET r == get_country_code(name)
              iso == {c \in pycountry_countries : c.name = name}
          IN /\ name \in DOMAIN COUNTRY_CODE_MAPPING_TABLE =>
                    (r.code = COUNTRY_CODE_MAPPING_TABLE[name]
                        /\ ~r.asked /\ r.errors = 0)
             /\ (name \notin DOMAIN COUNTRY_CODE_MAPPING_TABLE /\ iso # {}) =>
                    (r.errors = 0
                        /\ \E c \in iso : str_upper(r.code) = c.alpha_2)
             /\ (name \notin DOMAIN COUNTRY_CODE_MAPPING_TABLE /\ iso = {}) =>
                    (r.code = <<>> /\ r.errors = 1)
             /\ \/ r.code = <<>>
                \/ Len(r.code) = 2 /\ \A i \in 1..2 : r.code[i] \in Range(LowerLetters)
    /\ \A name \in {"England", "Scotland", "Wales", "Northern Ireland"} :
          get_country_code(name).code = <<"g", "b">>
    /\ get_country_code("Laos").code = <<"l", "a">>
    /\ get_country_code("Atlantis") = [code |-> <<>>, asked |-> TRUE, errors |-> 1]
    /\ resp.endpoint = "countries" =>
          \A i \in DOMAIN resp.data :
              resp.data[i].code = str_upper(get_country_code(resp.data[i].name).code)

\* Country groups of an overridden name, an ISO name and an unknown name.
C14_Witness ==
    /\ resp.endpoint = "countries"
    /\ \E i \in DOMAIN resp.data :
          resp.data[i].name = "Scotland" /\ resp.data[i].code = <<"G", "B">>
    /\ \E i \in DOMAIN resp.data :
          resp.data[i].name = "Norway" /\ resp.data[i].code = <<"N", "O">>
    /\ \E i \in DOMAIN resp.data :
          resp.data[i].name = "Atlantis" /\ resp.data[i].code = <<>>

\* The positions of the rows in hand whose brewery country resolves to code,
\* and of those of brewery id among them.
Resolving(code) ==
    {i \in DOMAIN rows : get_country_code(rows[i].beer.brewery.country).code = code}
OfBrewery(code, id) == {i \in Resolving(code) : rows[i].beer.brewery.id = id}
First(S) == CHOOSE i \in S : \A j \in S : i <= j

\* C15: the breakdown of a country code the ISO database knows holds exactly
\* the rows whose brewery country resolves to the code: count is their number
\* and the sum of the brewery counts; each brewery is listed once, with as
\* many beers as its count, the beers of its rows in the order of the rows;
\* the breweries are in the order of their first row; no row of an
\* unresolved country is in it.
C15_CountryBreakdown ==
    (resp.endpoint = "country" /\ resp.data.status = 200) =>
        LET code == str_lower(resp.code)
            bs == resp.data.breweries
        IN /\ code # <<>>
           /\ resp.data.code = code
           /\ resp.data.count = Cardinality(Resolving(code))
           /\ resp.data.count = sum([i \in DOMAIN bs |-> bs[i].count])
           /\ {bs[i].id : i \in DOMAIN bs} = {rows[i].beer.brewery.id : i \in Resolving(code)}
           /\ \A i, j \in DOMAIN bs : bs[i].id = bs[j].id => i = j
           /\ \A i \in DOMAIN bs :
                 /\ bs[i].count = Cardinality(OfBrewery(code, bs[i].id))
                 /\ Len(bs[i].beers) = bs[i].count
                 /\ \A k \in DOMAIN bs[i].beers :
                       \E n \in OfBrewery(code, bs[i].id) :
                          /\ rows[n].beer.id = bs[i].beers[k].id
                          /\ bs[i].beers[k].userRating = rows[n].rating
                          /\ Cardinality({m \in OfBrewery(code, bs[i].id) : m <= n}) = k
           /\ \A i, j \in DOMAIN bs :
                 i < j => First(OfBrewery(code, bs[i].id)) < First(OfBrewery(code, bs[j].id))
           /\ \A i \in DOMAIN rows :
                 get_country_code(rows[i].beer.brewery.country).code = <<>>
                     => \A b \in DOMAIN bs : \A k \in DOMAIN bs[b].beers :
                           bs[b].beers[k].id # rows[i].beer.id

\* The breakdown of "GB" for two rows of one Scottish brewery and, first of
\* the rows, one of a country nothing resolves.
C15_Witness ==
    /\ resp.endpoint = "country"
    /\ resp.code = <<"G", "B">>
    /\ resp.data.status = 200
    /\ Len(rows) = 3
    /\ rows[1].beer.brewery.country = "Atlantis"
    /\ resp.data.count = 2
    /\ Len(resp.data.breweries) = 1
    /\ Len(resp.data.breweries[1].beers) = 2

\* The key a grouping by time takes of a row, and the positions of the rows
\* in hand that bear a key.
KeyOf(endpoint, c) ==
    CASE endpoint = "dayofweek" -> isoweekday(c.first_had)
      [] endpoint = "timeofday" -> c.first_had.hour
      [] endpoint = "month" -> c.first_had.month
      [] endpoint = "year" -> c.first_had.year
WithKey(endpoint, key) == {i \in DOMAIN rows : KeyOf(endpoint, rows[i]) = key}

\* C19: the weekday, hour, month and year groupings list one group per key
\* that occurs, in the order in which the keys first occur; the count of a
\* group is the number of rows with its key, so the counts add up to the
\* number of rows; 2024-01-01 is a Monday and counts under weekday 1,
\* 2023-12-31 a Sunday and counts under weekday 7.
C19_OneGroupPerKey ==
    /\ resp.endpoint \in {"dayofweek", "timeofday", "month", "year"} =>
          LET gs == resp.data
              e == resp.endpoint
          IN /\ {gs[i].key : i \in DOMAIN gs} = {KeyOf(e, rows[i]) : i \in DOMAIN rows}
             /\ \A i, j \in DOMAIN gs : gs[i].key = gs[j].key => i = j
             /\ \A i \in DOMAIN gs : gs[i].count = Cardinality(WithKey(e, gs[i].key))
             /\ \A i, j \in DOMAIN gs :
                   i < j => First(WithKey(e, gs[i].key)) < First(WithKey(e, gs[j].key))
             /\ sum([i \in DOMAIN gs |-> gs[i].count]) = Len(rows)
    /\ resp.endpoint = "dayofweek" =>
          \A n \in DOMAIN rows :
              /\ Day(rows[n]) = <<2024, 1, 1>> =>
                    \E i \in DOMAIN resp.data :
                        resp.data[i].key = 1 /\ n \in WithKey("dayofweek", 1)
              /\ Day(rows[n]) = <<2023, 12, 31>> =>
                    \E i \in DOMAIN resp.data :
                        resp.data[i].key = 7 /\ n \in WithKey("dayofweek", 7)

\* Two Monday checkins with another day's between them: weekday 1 first, with
\* count 2.
C19_Witness ==
    /\ resp.endpoint = "dayofweek"
    /\ Len(rows) = 3
    /\ Day(rows[1]) = <<2024, 1, 1>>
    /\ Day(rows[2]) # <<2024, 1, 1>>
    /\ Day(rows[3]) = <<2024, 1, 1>>
    /\ Len(resp.data) = 2
    /\ resp.data[1].key = 1
    /\ resp.data[1].count = 2

\* ------------------------------------------------- the claims, continued
\* C16: in every state the sync steps reach, a stored Beer names a stored
\* Brewery, a stored Checkin a stored Beer and a stored User, and a stored
\* Friendship two stored Users.
C16_ReferentialIntegrity ==
    /\ \A b \in DOMAIN beers : KeyStored(breweries, beers[b].brewery_id)
    /\ \A c \in DOMAIN checkins :
          /\ KeyStored(beers, checkins[c].beer_id)
          /\ KeyStored(users, checkins[c].user_id)
    /\ \A h \in DOMAIN friendships :
          /\ KeyStored(users, friendships[h].user1_id)
          /\ KeyStored(users, friendships[h].user2_id)

\* A run that lost its second friends page and an earlier beers page has
\* ended, and rows of every table are stored.
C16_Witness ==
    \E r \in Slots :
        /\ Completed(r)
        /\ Has(r, "error", "friends")
        /\ Has(r, "error", "checkins")
        /\ beers # <<>>
        /\ checkins # <<>>
        /\ friendships # <<>>

\* The user_beers requests of run r, in their order.
BeerFetches(r) ==
    SelectSeq(trace[r], LAMBDA e : e.ev = "fetch" /\ e.action = "checkins")

\* C17: the k-th user_beers request of a run asks for offset 50*k with limit
\* 50, below the user's total_beers; the offsets rise strictly, none is asked
\* twice, and none is asked when total_beers is 0; when a page is requested,
\* no record of an earlier page is left to process.
C17_BeersPagedBy50 ==
    \A r \in Slots :
        LET fs == BeerFetches(r)
        IN /\ \A k \in DOMAIN fs :
                 /\ fs[k].offset = 50 * (k - 1)
                 /\ fs[k].n = 50
                 /\ fs[k].offset < users[run[r].user].total_beers
                 /\ users[run[r].user].total_beers # 0
                 /\ \A j \in DOMAIN fs : j < k => fs[j].offset < fs[k].offset
           /\ run[r].pc \in {"beers_loop", "fetch_beers"} =>
                 (run[r].todo = 0 /\ run[r].seen = {}
                     /\ run[r].offset = 50 * Len(fs))

\* A run has requested the pages at 0 and 50 and stored records of the first.
C17_Witness ==
    \E r \in Slots :
        /\ Completed(r)
        /\ Len(BeerFetches(r)) = 2
        /\ BeerFetches(r)[2].offset = 50
        /\ ~HasDup(r)
        /\ \E c \in DOMAIN checkins : checkins[c].user_id = run[r].user

\* C18: every page request of a run comes right after the one progress event
\* of its page, which bears the page's offset, the total of the phase and its
\* label, also when the request fails; the step that emits it leaves the
\* store as it is and changes nothing of the run but its position.
C18_ProgressBeforeFetch ==
    /\ [](\A r \in Slots : \A i \in DOMAIN trace[r] :
             (trace[r][i].ev = "fetch" /\ trace[r][i].action # "user_info") =>
                 /\ i > 1
                 /\ trace[r][i - 1] =
                       Event("progress", trace[r][i].action, trace[r][i].offset,
                             IF trace[r][i].action = "checkins"
                             THEN users[run[r].user].total_beers
                             ELSE users[run[r].user].total_friends)
                 /\ Cardinality({j \in DOMAIN trace[r] :
                                    /\ trace[r][j].ev = "progress"
                                    /\ trace[r][j].action = trace[r][i].action
                                    /\ trace[r][j].offset = trace[r][i].offset}) = 1)
    /\ [][\A r \in Slots :
             (Len(trace'[r]) = Len(trace[r]) + 1
                 /\ trace'[r][Len(trace'[r])].ev = "progress") =>
                    /\ UNCHANGED store
                    /\ run' = [run EXCEPT ![r].pc = run'[r].pc]]_vars

\* The second beers page was announced and then failed to arrive.
C18_Witness ==
    \E r \in Slots : \E i \in DOMAIN trace[r] :
        /\ i + 2 \in DOMAIN trace[r]
        /\ trace[r][i] = Event("progress", "checkins", 50, 51)
        /\ trace[r][i + 1] = Event("fetch", "checkins", 50, 50)
        /\ trace[r][i + 2] = Event("error", "checkins", 50, 50)

\* C20: while runs of one user overlap, no run is about to insert a Checkin
\* whose id is stored: the query for the Checkin keeps every run from
\* inserting an id a second time.
C20_CheckinInsertedOnce ==
    \A r \in Slots :
        run[r].pc = "add_checkin" => ~KeyStored(checkins, run[r].raw.first_checkin_id)

\* ------------------------------------------- claims on the standing lists
\* The place of beer b in the list of user u (0 when it is not listed).
Position(u, b) ==
    LET at == {i \in DOMAIN beer_list(u) : beer_list(u)[i] = b}
    IN IF at = {} THEN 0 ELSE CHOOSE i \in at : TRUE
\* Every record of u's list after place p has its Checkin in the table.
StoredAfter(table, u, p) ==
    \A i \in DOMAIN beer_list(u) :
        i > p => KeyStored(table, CheckinOf(u, beer_list(u)[i]))
\* The step in which handle_beer meets a stored Checkin.
MeetsStored(r) ==
    /\ run[r].pc = "find_checkin"
    /\ KeyStored(checkins, run[r].raw.first_checkin_id)
    /\ run'[r].pc # "find_checkin"

\* C21: whenever a run halts because the Checkin id of a record is stored,
\* the Checkin of every record at a later place of the user's list is stored
\* too, whatever runs of that user came before, runs that stopped on a failed
\* fetch after committing pages included.
C21_HaltMeansCaughtUp ==
    [][\A r \in Slots :
          MeetsStored(r) =>
              StoredAfter(checkins, run[r].target,
                          Position(run[r].target, run[r].raw.beer.bid))]_vars

\* Run q ended with update:finished and none of its requests failed.
RanThrough(q) ==
    /\ run[q].pc = "done"
    /\ \A i \in DOMAIN trace[q] : trace[q][i].ev # "error"
\* Run r is the sync begun next after run q, for the same user, and the data
\* source reports to it what it reported to q.
Repeats(r, q) ==
    /\ run[q].id > 0
    /\ run[r].id = run[q].id + 1
    /\ run[r].target = run[q].target
    /\ run[r].epoch = run[q].epoch
\* The User rows are the same but for last_update.
SameProfiles(table, table2) ==
    /\ DOMAIN table2 = DOMAIN table
    /\ \A u \in DOMAIN table :
          [table2[u] EXCEPT !.last_update = table[u].last_update] = table[u]

\* C22: a sync begun directly after a sync of the same user that ran through,
\* the data source reporting the same profile, beers and friends, requests at
\* most one page of beers, and no step of it inserts or changes a Brewery,
\* Beer, Checkin or Friendship, or a User other than in last_update.
C22_RepeatedSyncAddsNothing ==
    /\ [](\A r \in Slots, q \in Slots :
            Repeats(r, q) /\ RanThrough(q) => Len(BeerFetches(r)) <= 1)
    /\ [][\A r \in Slots, q \in Slots :
            Repeats(r, q) /\ RanThrough(q) /\ Active(r) =>
                /\ breweries' = breweries
                /\ beers' = beers
                /\ checkins' = checkins
                /\ friendships' = friendships
                /\ SameProfiles(users, users')]_vars

\* A repeated sync of the user with the long list has ended: it asked for
\* the first page, met the stored Checkin of its first record and went
\* through the friends, with every record of the list and the friendship
\* stored by the sync before it.
C22_Witness ==
    \E r \in Slots, q \in Slots :
        /\ Repeats(r, q) /\ RanThrough(q) /\ RanThrough(r)
        /\ ~HasDup(q)
        /\ HasDup(r)
        /\ Len(BeerFetches(r)) = 1
        /\ Len(FriendFetches(r)) = 1
        /\ Cardinality(DOMAIN checkins) = Len(beer_list(run[r].target))
        /\ Len(beer_list(run[r].target)) > BeerLimit
        /\ friendships # <<>>
====
